---- MODULE Spec2Model ----
(***************************************************************************)
(* Model of the scan command of codelens-cli (src/src/index.ts).           *)
(*                                                                         *)
(* index.ts is one module, and line 87 of it, inside displayResults, is    *)
(* not an expression of the language: the template substitution that       *)
(* starts at "${color.bold [" continues with "${", which in an expression  *)
(* is the identifier $ followed by "{".  Evaluating the module throws a    *)
(* SyntaxError before any statement of it runs, for every command line.    *)
(* Spec is the program as it runs.                                         *)
(*                                                                         *)
(* Three more specifications run functions of the module as units, as     *)
(* their text has them behave: SpecDiscovery applies getFiles, SpecAnalyze  *)
(* runs one call of analyzeFile, and SpecScan runs the scan action (the     *)
(* usage check, discovery, Promise.all over the analyzeFile calls, and      *)
(* displayResults).  In displayResults the statement of line 87 either      *)
(* prints its line or throws; where the severity is absent, the call       *)
(* vuln.severity.toUpperCase() inside it throws a TypeError.               *)
(*                                                                         *)
(* Strings that the code inspects character by character (directory entry  *)
(* names, the --extensions option) are sequences of one-character strings. *)
(* A path is the sequence of its segments; <<>> is the working directory.  *)
(***************************************************************************)
EXTENDS Integers, Sequences, FiniteSets, TLC

VARIABLES
    fs,        \* the file system: the listing of the working directory
    options,   \* the parsed command line: file, directory, extensions
    service,   \* what the service answers to the request for each file name
    pc,        \* position of the process
    files,     \* `files` of the scan action, or what getFiles returned
    call,      \* per analyzeFile call of the scan action: where it is
    results,   \* `results` of the scan action, as Promise.all collects it
    ret,       \* what a call of analyzeFile returned, Undefined before it has
    spin,      \* spinner start / succeed / fail messages, in emission order
    out,       \* lines printed with console.log and console.error
    exitCode   \* process exit code, NoExit while running

vars == <<fs, options, service, pc, files, call, results, ret, spin, out, exitCode>>

\* ---------------------------------------------------------------- bounds
MaxNodes == 3      \* file-system entries below the working directory
MaxDepth == 3      \* nesting depth of the file system
MaxVulns == 2      \* vulnerabilities in one service response

\* ------------------------------------------------------------ JS values
\* Every JS value of the model is a record with a type field, so that values of
\* different JS types can be compared.
Undefined == [type |-> "undefined"]
Null == [type |-> "null"]
Str(v) == [type |-> "string", v |-> v]
\* exitCode of a process that has not exited
NoExit == -1

\* ------------------------------------------------------------- strings
Str_TS == <<"T", "S">>
Str_tsCommaPy == <<"t", "s", ",", " ", ".", "p", "y">>
Ext_js == <<".", "j", "s">>
Ext_ts == <<".", "t", "s">>
Ext_jsx == <<".", "j", "s", "x">>
Ext_tsx == <<".", "t", "s", "x">>
Ext_py == <<".", "p", "y">>
Ext_go == <<".", "g", "o">>
Ext_java == <<".", "j", "a", "v", "a">>
Ext_rb == <<".", "r", "b">>
Ext_php == <<".", "p", "h", "p">>
Ext_cs == <<".", "c", "s">>
Ext_c == <<".", "c">>
Ext_cpp == <<".", "c", "p", "p">>
Ext_rs == <<".", "r", "s">>

Name_a_ts == <<"a", ".", "t", "s">>
Name_B_TS == <<"B", ".", "T", "S">>
Name_c_txt == <<"c", ".", "t", "x", "t">>
Name_dot_ts == <<".", "t", "s">>
Name_lnk == <<"l", "n", "k">>
Name_src == <<"s", "r", "c">>
Name_dot_git == <<".", "g", "i", "t">>
Sev_critical == <<"c", "r", "i", "t", "i", "c", "a", "l">>
Sev_high == <<"h", "i", "g", "h">>
Sev_medium == <<"m", "e", "d", "i", "u", "m">>
Sev_low == <<"l", "o", "w">>
Sev_info == <<"i", "n", "f", "o">>
node_modules == <<"n", "o", "d", "e", "_", "m", "o", "d", "u", "l", "e", "s">>

UpperChars == <<"A","B","C","D","E","F","G","H","I","J","K","L","M",
                "N","O","P","Q","R","S","T","U","V","W","X","Y","Z">>
LowerChars == <<"a","b","c","d","e","f","g","h","i","j","k","l","m",
                "n","o","p","q","r","s","t","u","v","w","x","y","z">>

\* String.prototype.toLowerCase
toLowerCase(s) ==
    [i \in 1..Len(s) |->
        IF \E k \in 1..26 : UpperChars[k] = s[i]
        THEN LowerChars[CHOOSE k \in 1..26 : UpperChars[k] = s[i]]
        ELSE s[i]]

\* String.prototype.toUpperCase
toUpperCase(s) ==
    [i \in 1..Len(s) |->
        IF \E k \in 1..26 : LowerChars[k] = s[i]
        THEN UpperChars[CHOOSE k \in 1..26 : LowerChars[k] = s[i]]
        ELSE s[i]]

\* String.prototype.startsWith('.')
startsWithDot(s) == Len(s) >= 1 /\ s[1] = "."

\* String.prototype.trim (the only white space of the model is " ")
RECURSIVE trimStart(_)
trimStart(s) == IF Len(s) >= 1 /\ s[1] = " " THEN trimStart(Tail(s)) ELSE s

RECURSIVE trimEnd(_)
trimEnd(s) ==
    IF Len(s) >= 1 /\ s[Len(s)] = " " THEN trimEnd(SubSeq(s, 1, Len(s) - 1)) ELSE s

trim(s) == trimEnd(trimStart(s))

\* String.prototype.split(','): cur is the piece being read
RECURSIVE splitFrom(_, _, _)
splitFrom(s, i, cur) ==
    IF i > Len(s) THEN <<cur>>
    ELSE IF s[i] = "," THEN <<cur>> \o splitFrom(s, i + 1, <<>>)
    ELSE splitFrom(s, i + 1, Append(cur, s[i]))

split(s) == splitFrom(s, 1, <<>>)

\* Array.prototype.includes
includes(arr, x) == \E i \in 1..Len(arr) : arr[i] = x

\* path.extname of a directory entry name (no separator in it, startPart = 0).
\* The scan runs from the last character to the first; startDot and end are
\* 1-based here and 0 stands for node's -1.
RECURSIVE extScan(_, _, _, _, _)
extScan(p, i, startDot, end, preDotState) ==
    IF i = 0
    THEN IF \/ startDot = 0
            \/ end = 0
            \/ preDotState = 0
            \/ (preDotState = 1 /\ startDot = end /\ startDot = 2)
         THEN <<>>
         ELSE SubSeq(p, startDot, end)
    ELSE LET end2 == IF end = 0 THEN i ELSE end IN
         IF p[i] = "."
         THEN IF startDot = 0
              THEN extScan(p, i - 1, i, end2, preDotState)
              ELSE extScan(p, i - 1, startDot, end2, 1)
         ELSE IF startDot # 0
              THEN extScan(p, i - 1, startDot, end2, -1)
              ELSE extScan(p, i - 1, startDot, end2, preDotState)

extname(p) == extScan(p, Len(p), 0, 0, 0)

\* path.join(dir, item)
join(dir, item) == Append(dir, item)

\* --------------------------------------------------------- file system
\* An entry is [name, kind, children]:
\*   "file"    a regular file
\*   "dir"     a directory that can be listed
\*   "denied"  a directory whose listing fails (readdirSync throws)
\*   "broken"  an entry whose stat fails (statSync throws), e.g. a dangling link
Missing == [name |-> <<>>, kind |-> "missing", children |-> <<>>]
Cwd(listing) == [name |-> <<>>, kind |-> "dir", children |-> listing]

RECURSIVE lookupIn(_, _)
lookupIn(node, path) ==
    IF path = <<>> THEN node
    ELSE IF node.kind # "dir" THEN Missing
    ELSE IF \E k \in 1..Len(node.children) : node.children[k].name = Head(path)
    THEN lookupIn(node.children[CHOOSE k \in 1..Len(node.children) :
                                    node.children[k].name = Head(path)],
                  Tail(path))
    ELSE Missing

lookup(f, path) == lookupIn(Cwd(f), path)

\* fs.readdirSync succeeds
canReaddir(f, dir) == lookup(f, dir).kind = "dir"
\* fs.readdirSync: the entry names, in the directory's order
readdirSync(f, dir) ==
    LET c == lookup(f, dir).children IN [k \in 1..Len(c) |-> c[k].name]
\* fs.statSync succeeds
canStat(f, path) == lookup(f, path).kind \in {"file", "dir", "denied"}
isDirectory(f, path) == lookup(f, path).kind \in {"dir", "denied"}
isFile(f, path) == lookup(f, path).kind = "file"
\* fs.readFileSync succeeds
canReadFile(f, path) == lookup(f, path).kind = "file"

\* The error code that starts error.message of a readFileSync that throws:
\* the path runs through a file (ENOTDIR) or through a directory that cannot
\* be searched (EACCES), a segment of it does not exist (ENOENT), or it names
\* a directory (EISDIR, EACCES when the directory cannot be opened)
RECURSIVE readErrorIn(_, _)
readErrorIn(node, path) ==
    IF path = <<>>
    THEN IF node.kind = "dir" THEN "EISDIR"
         ELSE IF node.kind = "denied" THEN "EACCES"
         ELSE "ENOENT"
    ELSE IF node.kind = "file" THEN "ENOTDIR"
    ELSE IF node.kind = "denied" THEN "EACCES"
    ELSE IF /\ node.kind = "dir"
            /\ \E k \in 1..Len(node.children) : node.children[k].name = Head(path)
    THEN readErrorIn(node.children[CHOOSE k \in 1..Len(node.children) :
                                       node.children[k].name = Head(path)],
                     Tail(path))
    ELSE "ENOENT"

readError(f, filePath) == readErrorIn(Cwd(f), filePath)

\* getFiles (index.ts 15-36).  getFilesLoop is the for loop from its k-th item
\* with `files` as collected so far; a throwing statSync leaves the loop through
\* the catch that surrounds it, and `files` is returned as it stands.
RECURSIVE getFiles(_, _, _)
RECURSIVE getFilesLoop(_, _, _, _, _, _)
getFilesLoop(f, dir, items, k, extensions, acc) ==
    IF k > Len(items) THEN acc
    ELSE LET item == items[k]
             fullPath == join(dir, item)
         IN  IF ~canStat(f, fullPath) THEN acc
             ELSE IF /\ isDirectory(f, fullPath)
                     /\ ~startsWithDot(item)
                     /\ item # node_modules
             THEN getFilesLoop(f, dir, items, k + 1, extensions,
                               acc \o getFiles(f, fullPath, extensions))
             ELSE IF /\ isFile(f, fullPath)
                     /\ includes(extensions, toLowerCase(extname(item)))
             THEN getFilesLoop(f, dir, items, k + 1, extensions,
                               Append(acc, fullPath))
             ELSE getFilesLoop(f, dir, items, k + 1, extensions, acc)

getFiles(f, dir, extensions) ==
    IF ~canReaddir(f, dir) THEN <<>>
    ELSE getFilesLoop(f, dir, readdirSync(f, dir), 1, extensions, <<>>)

\* -------------------------------------------------------------- inputs
RECURSIVE Size(_)
RECURSIVE SizeAll(_)
Size(e) == 1 + SizeAll(e.children)
SizeAll(listing) ==
    IF listing = <<>> THEN 0 ELSE Size(Head(listing)) + SizeAll(Tail(listing))

FileNames == {Name_a_ts, Name_B_TS, Name_c_txt, Name_dot_ts}
DirNames == {Name_src, Name_dot_git, node_modules}

Leaf(nm, kind) == [name |-> nm, kind |-> kind, children |-> <<>>]

\* The listings of at most n entries in all, nested at most d deep, no name
\* twice in one directory, in every order a directory can list them.
RECURSIVE Listings(_, _)
Entries(n, d) ==
    {Leaf(nm, "file") : nm \in FileNames}
    \cup {Leaf(Name_lnk, "broken")}
    \cup {Leaf(nm, "denied") : nm \in DirNames}
    \cup {[name |-> nm, kind |-> "dir", children |-> c] :
              nm \in DirNames, c \in Listings(n - 1, d - 1)}
Listings(n, d) ==
    IF n = 0 \/ d = 0 THEN {<<>>}
    ELSE {<<>>} \cup UNION {
             {<<e>> \o rest :
                 rest \in {r \in Listings(n - Size(e), d) :
                              \A k \in 1..Len(r) : r[k].name # e.name}} :
             e \in Entries(n, d)}

\* A vulnerability of a response: critical, or with no severity field
Vulns == {[line |-> 3, severity |-> Sev_critical], [line |-> 3]}

RECURSIVE SeqsUpTo(_, _)
SeqsUpTo(S, n) ==
    IF n = 0 THEN {<<>>}
    ELSE LET shorter == SeqsUpTo(S, n - 1)
         IN  shorter \cup {Append(q, x) : q \in {r \in shorter : Len(r) = n - 1}, x \in S}

\* What response.json() can resolve to: { vulnerabilities: [...] }
Bodies == {[type |-> "object", vulnerabilities |-> v] : v \in SeqsUpTo(Vulns, MaxVulns)}

\* What the service does with one request: the fetch rejects, the status is
\* not 2xx, the body is not JSON (cut short, or not JSON from some character
\* on), or the body is b
FailedAnswers ==
    {[type |-> "neterr"],
     [type |-> "non2xx", statusText |-> "Not Found"],
     [type |-> "badjson", message |-> "Unexpected end of JSON input"],
     [type |-> "badjson", message |-> "Unexpected token"]}

Answers == FailedAnswers \cup {[type |-> "body", body |-> b] : b \in Bodies}

\* The service of a run answers by the name of the file whose code it is sent
ServedNames == {Name_a_ts, Name_B_TS}
Services == [ServedNames -> Answers]
answerFor(svc, filePath) ==
    IF filePath # <<>> /\ filePath[Len(filePath)] \in DOMAIN svc
    THEN svc[filePath[Len(filePath)]]
    ELSE [type |-> "neterr"]

\* Every path of the file system
RECURSIVE PathsUnder(_, _)
PathsUnder(prefix, listing) ==
    UNION {{Append(prefix, listing[k].name)}
           \cup PathsUnder(Append(prefix, listing[k].name), listing[k].children) :
           k \in 1..Len(listing)}

\* ------------------------------------------------- the text of index.ts
\* !options.file, !options.directory: the option was not given
notGiven(o) == o.type = "undefined"
\* options.extensions ? ... : ...  (the empty string is falsy)
truthy(o) == o.type = "string" /\ o.v # <<>>

DefaultExtensions ==
    <<Ext_js, Ext_ts, Ext_jsx, Ext_tsx, Ext_py, Ext_go, Ext_java,
      Ext_rb, Ext_php, Ext_cs, Ext_c, Ext_cpp, Ext_rs>>

\* index.ts 124-126
parseExtensions(o) ==
    IF truthy(o)
    THEN LET parts == split(o.v)
         IN  [k \in 1..Len(parts) |->
                 IF startsWithDot(trim(parts[k])) THEN trim(parts[k])
                 ELSE <<".">> \o trim(parts[k])]
    ELSE DefaultExtensions

\* usageError with the second test inverted
usageErrorWrongTest(o) == notGiven(o.file) /\ ~notGiven(o.directory)

\* index.ts 119: neither --file nor --directory
usageError(o) == notGiven(o.file) /\ notGiven(o.directory)

\* index.ts 131-137: the files the scan action would analyse
collectFiles(f, o) ==
    IF ~notGiven(o.file) THEN <<o.file.v>>
    ELSE IF ~notGiven(o.directory)
    THEN getFiles(f, o.directory.v, parseExtensions(o.extensions))
    ELSE <<>>

\* error.message of a fetch that rejects, of `API error: ${response.statusText}`
\* and of a response.json() that rejects
fetchError == "fetch failed"
apiError(answer) == <<"API error: ", answer.statusText>>
jsonError(answer) == answer.message

\* ora(`Analyzing ${filePath}...`).start(), spinner.fail, spinner.succeed
startMsg(filePath) == [kind |-> "start", file |-> filePath]
failMsg(filePath, message) == [kind |-> "fail", file |-> filePath, cause |-> message]
succeedMsg(filePath) == [kind |-> "succeed", file |-> filePath]

\* index.ts 39-63: the value one call of analyzeFile returns, given the answer
\* of the service: null from its catch block (file unreadable, fetch rejected,
\* status not ok, body not JSON), the parsed body otherwise
analyzeFileReturns(f, svc, filePath) ==
    IF ~canReadFile(f, filePath) THEN Null
    ELSE IF answerFor(svc, filePath).type # "body" THEN Null
    ELSE answerFor(svc, filePath).body

\* index.ts 40, 56, 60: the spinner messages of one call of analyzeFile
analyzeFileSpin(f, svc, filePath) ==
    LET answer == answerFor(svc, filePath)
    IN  IF ~canReadFile(f, filePath)
        THEN <<startMsg(filePath), failMsg(filePath, readError(f, filePath))>>
        ELSE IF answer.type = "neterr"
        THEN <<startMsg(filePath), failMsg(filePath, fetchError)>>
        ELSE IF answer.type = "non2xx"
        THEN <<startMsg(filePath), failMsg(filePath, apiError(answer))>>
        ELSE IF answer.type = "badjson"
        THEN <<startMsg(filePath), failMsg(filePath, jsonError(answer))>>
        ELSE <<startMsg(filePath), succeedMsg(filePath)>>

\* index.ts 39-63: one call of analyzeFile from its first line to its return
analyzeFile(f, svc, filePath) ==
    [ret |-> analyzeFileReturns(f, svc, filePath),
     spin |-> analyzeFileSpin(f, svc, filePath)]

\* A promise of Promise.all that has not settled
Pending == [type |-> "pending"]

\* promiseAllPlace collecting in completion order: the value goes to the first
\* free index
promiseAllPlaceCompletionOrder(values, i, v) ==
    [values EXCEPT ![CHOOSE k \in 1..Len(values) :
                        /\ values[k] = Pending
                        /\ \A j \in 1..(k - 1) : values[j] # Pending] = v]

\* Promise.all puts the value of the i-th promise at index i
promiseAllPlace(values, i, v) == [values EXCEPT ![i] = v]

\* promiseAllReady resolving with the first promise that settles
promiseAllReadyFirst(c) == \E i \in 1..Len(c) : c[i] = "returned"

\* Promise.all resolves when every promise has
promiseAllReady(c) == \A i \in 1..Len(c) : c[i] = "returned"

\* ------------------------------------------------------ displayResults
hasSeverity(vuln) == "severity" \in DOMAIN vuln
severityIs(vuln, s) == hasSeverity(vuln) /\ vuln.severity = s
\* index.ts 83-85
colorOf(vuln) ==
    IF severityIs(vuln, Sev_critical) THEN "red"
    ELSE IF severityIs(vuln, Sev_high) THEN "yellow"
    ELSE IF severityIs(vuln, Sev_medium) THEN "yellow"
    ELSE "gray"

\* result.file
fileOf(result) == IF "file" \in DOMAIN result THEN result.file ELSE Undefined
\* result.vulnerabilities || []
vulnsOf(result) ==
    IF "vulnerabilities" \in DOMAIN result THEN result.vulnerabilities ELSE <<>>

\* index.ts 88-90: if (vuln.cwe) console.log(...)
cweLines(vuln) ==
    IF "cwe" \in DOMAIN vuln THEN <<[type |-> "cwe", cwe |-> vuln.cwe]>> ELSE <<>>

\* index.ts 82-91: the lines printed for vulns[k..].  Executing line 87 throws
\* a TypeError when the severity is absent (vuln.severity.toUpperCase());
\* otherwise the statement, which is not well formed, prints its line or, when
\* line87Throws, throws.
RECURSIVE displayVulns(_, _, _, _)
displayVulns(vulns, k, printed, line87Throws) ==
    IF k > Len(vulns) THEN [printed |-> printed, threw |-> FALSE, cause |-> ""]
    ELSE IF ~hasSeverity(vulns[k])
    THEN [printed |-> printed, threw |-> TRUE, cause |-> "TypeError"]
    ELSE IF line87Throws
    THEN [printed |-> printed, threw |-> TRUE, cause |-> "line 87"]
    ELSE displayVulns(vulns, k + 1,
            Append(printed, [type |-> "vuln", color |-> colorOf(vulns[k]),
                             label |-> toUpperCase(vulns[k].severity),
                             line |-> vulns[k].line])
            \o cweLines(vulns[k]),
            line87Throws)

\* addVulns assigning instead of adding
addVulnsAssign(totalVulns, vulns) == Len(vulns)

\* index.ts 77: totalVulns += vulns.length
addVulns(totalVulns, vulns) == totalVulns + Len(vulns)

\* index.ts 73-93: the loop over results from its i-th entry
RECURSIVE displayLoop(_, _, _, _, _)
displayLoop(rs, i, totalVulns, printed, line87Throws) ==
    IF i > Len(rs)
    THEN [total |-> totalVulns, printed |-> printed, threw |-> FALSE, cause |-> ""]
    ELSE IF rs[i] = Null THEN displayLoop(rs, i + 1, totalVulns, printed, line87Throws)
    ELSE LET vulns == vulnsOf(rs[i])
             total2 == addVulns(totalVulns, vulns)
         IN  IF Len(vulns) > 0
             THEN LET d == displayVulns(vulns, 1,
                              Append(printed, [type |-> "header", file |-> fileOf(rs[i])]),
                              line87Throws)
                  IN  IF d.threw
                      THEN [total |-> total2, printed |-> d.printed,
                            threw |-> TRUE, cause |-> d.cause]
                      ELSE displayLoop(rs, i + 1, total2, d.printed, line87Throws)
             ELSE displayLoop(rs, i + 1, total2, printed, line87Throws)

\* index.ts 66-102: the banner, the loop, the total and the verdict
displayResults(rs, line87Throws) ==
    LET d == displayLoop(rs, 1, 0, <<[type |-> "banner"]>>, line87Throws)
    IN  IF d.threw THEN d
        ELSE [d EXCEPT !.printed =
                 d.printed \o <<[type |-> "total", n |-> d.total],
                                [type |-> "verdict", clean |-> ~(d.total > 0)]>>]

\* index.ts 87: the tokens of the expression of the substitution that opens at
\* "${color.bold [" and closes at the brace that matches it
Line87Substitution ==
    <<"color", ".", "bold", "[", "$", "{", "vuln", ".", "severity", ".",
      "toUpperCase", "(", ")", "}", "]">>

IdentifierTokens == {"color", "bold", "$", "vuln", "severity", "toUpperCase"}

\* In an expression no operand follows an operand: after an identifier or a
\* closing bracket, an identifier or "{" is a SyntaxError
syntaxError(tokens) ==
    \E i \in 1..(Len(tokens) - 1) :
        /\ tokens[i] \in IdentifierTokens \cup {")", "]", "}"}
        /\ tokens[i + 1] \in IdentifierTokens \cup {"{"}

\* ------------------------------------------------------------- actions
\* node evaluates index.ts: the SyntaxError of line 87 is thrown before the
\* first statement, and the process ends with exit code 1.
Load ==
    /\ pc = "start"
    /\ IF syntaxError(Line87Substitution)
       THEN pc' = "exited" /\ exitCode' = 1
       ELSE pc' = "loaded" /\ UNCHANGED exitCode
    /\ UNCHANGED <<fs, options, service, files, call, results, ret, spin, out>>

\* getFiles applied as a unit to the directory and the extensions of the options
Discover ==
    /\ pc = "start"
    /\ ~notGiven(options.directory)
    /\ files' = getFiles(fs, options.directory.v, parseExtensions(options.extensions))
    /\ pc' = "discovered"
    /\ UNCHANGED <<fs, options, service, call, results, ret, spin, out, exitCode>>

\* One call analyzeFile(options.file), step by step.
\* index.ts 40-45: the spinner starts and the file is read; a throwing
\* readFileSync goes to the catch block, otherwise the call awaits the fetch
AnalyzeStart ==
    /\ pc = "start"
    /\ ~notGiven(options.file)
    /\ IF canReadFile(fs, options.file.v)
       THEN /\ spin' = Append(spin, startMsg(options.file.v))
            /\ pc' = "fetching"
            /\ UNCHANGED ret
       ELSE /\ spin' = spin \o <<startMsg(options.file.v),
                                 failMsg(options.file.v, readError(fs, options.file.v))>>
            /\ ret' = Null
            /\ pc' = "returned"
    /\ UNCHANGED <<fs, options, service, files, call, results, out, exitCode>>

\* index.ts 45, 59-62: the fetch rejects (network error)
FetchReject ==
    /\ pc = "fetching"
    /\ answerFor(service, options.file.v).type = "neterr"
    /\ spin' = Append(spin, failMsg(options.file.v, fetchError))
    /\ ret' = Null
    /\ pc' = "returned"
    /\ UNCHANGED <<fs, options, service, files, call, results, out, exitCode>>

\* index.ts 45-55: the fetch resolves with a response; !response.ok throws,
\* otherwise the call awaits response.json()
FetchResolve ==
    /\ pc = "fetching"
    /\ answerFor(service, options.file.v).type # "neterr"
    /\ IF answerFor(service, options.file.v).type = "non2xx"
       THEN /\ spin' = Append(spin, failMsg(options.file.v,
                                            apiError(answerFor(service, options.file.v))))
            /\ ret' = Null
            /\ pc' = "returned"
       ELSE /\ pc' = "parsing"
            /\ UNCHANGED <<ret, spin>>
    /\ UNCHANGED <<fs, options, service, files, call, results, out, exitCode>>

\* index.ts 55, 59-62: response.json() rejects, the body is not JSON
JsonReject ==
    /\ pc = "parsing"
    /\ answerFor(service, options.file.v).type = "badjson"
    /\ spin' = Append(spin, failMsg(options.file.v,
                                    jsonError(answerFor(service, options.file.v))))
    /\ ret' = Null
    /\ pc' = "returned"
    /\ UNCHANGED <<fs, options, service, files, call, results, out, exitCode>>

\* index.ts 55-58: response.json() resolves with the body, which is returned
JsonResolve ==
    /\ pc = "parsing"
    /\ answerFor(service, options.file.v).type = "body"
    /\ spin' = Append(spin, succeedMsg(options.file.v))
    /\ ret' = answerFor(service, options.file.v).body
    /\ pc' = "returned"
    /\ UNCHANGED <<fs, options, service, files, call, results, out, exitCode>>

\* The scan action, step by step.
\* The spinner messages of files.map(analyzeFile): every call runs to its
\* fetch, or through its catch when the file cannot be read
RECURSIVE dispatchSpin(_, _, _)
dispatchSpin(f, fl, i) ==
    IF i > Len(fl) THEN <<>>
    ELSE IF canReadFile(f, fl[i])
    THEN <<startMsg(fl[i])>> \o dispatchSpin(f, fl, i + 1)
    ELSE <<startMsg(fl[i]), failMsg(fl[i], readError(f, fl[i]))>>
         \o dispatchSpin(f, fl, i + 1)

\* index.ts 118-143: the usage check, discovery, and files.map(analyzeFile)
\* up to the await of Promise.all
ScanStart ==
    /\ pc = "start"
    /\ IF usageError(options)
       THEN /\ out' = <<[type |-> "usage"]>>
            /\ pc' = "exited"
            /\ exitCode' = 1
            /\ UNCHANGED <<files, call, results, spin>>
       ELSE LET fl == collectFiles(fs, options)
            IN  /\ files' = fl
                /\ call' = [i \in 1..Len(fl) |->
                               IF canReadFile(fs, fl[i]) THEN "fetching" ELSE "returned"]
                /\ results' = [i \in 1..Len(fl) |->
                                  IF canReadFile(fs, fl[i]) THEN Pending ELSE Null]
                /\ spin' = <<[kind |-> "scan-start"],
                             [kind |-> "scan-text", found |-> Len(fl)]>>
                           \o dispatchSpin(fs, fl, 1)
                /\ pc' = "awaiting"
                /\ UNCHANGED <<out, exitCode>>
    /\ UNCHANGED <<fs, options, service, ret>>

\* The fetch of call i rejects (network error); its catch returns null
CallFetchReject(i) ==
    /\ pc = "awaiting"
    /\ call[i] = "fetching"
    /\ answerFor(service, files[i]).type = "neterr"
    /\ call' = [call EXCEPT ![i] = "returned"]
    /\ results' = promiseAllPlace(results, i, Null)
    /\ spin' = Append(spin, failMsg(files[i], fetchError))
    /\ UNCHANGED <<fs, options, service, pc, files, ret, out, exitCode>>

\* The fetch of call i resolves with a response; !response.ok throws
CallFetchResolve(i) ==
    /\ pc = "awaiting"
    /\ call[i] = "fetching"
    /\ answerFor(service, files[i]).type # "neterr"
    /\ IF answerFor(service, files[i]).type = "non2xx"
       THEN /\ call' = [call EXCEPT ![i] = "returned"]
            /\ results' = promiseAllPlace(results, i, Null)
            /\ spin' = Append(spin, failMsg(files[i], apiError(answerFor(service, files[i]))))
       ELSE /\ call' = [call EXCEPT ![i] = "parsing"]
            /\ UNCHANGED <<results, spin>>
    /\ UNCHANGED <<fs, options, service, pc, files, ret, out, exitCode>>

\* response.json() of call i rejects: the body is not JSON
CallJsonReject(i) ==
    /\ pc = "awaiting"
    /\ call[i] = "parsing"
    /\ answerFor(service, files[i]).type = "badjson"
    /\ call' = [call EXCEPT ![i] = "returned"]
    /\ results' = promiseAllPlace(results, i, Null)
    /\ spin' = Append(spin, failMsg(files[i], jsonError(answerFor(service, files[i]))))
    /\ UNCHANGED <<fs, options, service, pc, files, ret, out, exitCode>>

\* response.json() of call i resolves with the body, which the call returns
CallJsonResolve(i) ==
    /\ pc = "awaiting"
    /\ call[i] = "parsing"
    /\ answerFor(service, files[i]).type = "body"
    /\ call' = [call EXCEPT ![i] = "returned"]
    /\ results' = promiseAllPlace(results, i, answerFor(service, files[i]).body)
    /\ spin' = Append(spin, succeedMsg(files[i]))
    /\ UNCHANGED <<fs, options, service, pc, files, ret, out, exitCode>>

\* index.ts 141-151: the continuation of await Promise.all: the spinner
\* succeeds, displayResults runs, and what it throws goes to the catch of the
\* scan action, which exits with code 1
AllSettled ==
    /\ pc = "awaiting"
    /\ promiseAllReady(call)
    /\ \E line87Throws \in BOOLEAN :
          LET d == displayResults(results, line87Throws)
          IN  /\ out' = d.printed
              /\ IF d.threw
                 THEN /\ pc' = "exited"
                      /\ exitCode' = 1
                      /\ spin' = spin \o <<[kind |-> "scan-succeed"],
                                           [kind |-> "scan-fail", cause |-> d.cause]>>
                 ELSE /\ pc' = "completed"
                      /\ exitCode' = 0
                      /\ spin' = Append(spin, [kind |-> "scan-succeed"])
    /\ UNCHANGED <<fs, options, service, files, call, results, ret>>

ScanNodes == 2     \* file-system entries of a scan run

\* The command lines of a scan run: a file, a directory, both, or none
ScanOptions ==
    [file : {Str(<<Name_a_ts>>)}, directory : {Undefined, Str(<<>>)},
     extensions : {Undefined}]
    \cup [file : {Undefined}, directory : {Undefined, Str(<<>>), Str(<<Name_src>>)},
          extensions : {Undefined, Str(Str_tsCommaPy)}]

Init ==
    /\ fs \in Listings(ScanNodes, MaxDepth)
    /\ options \in ScanOptions
    /\ service \in Services
    /\ pc = "start"
    /\ files = <<>>
    /\ call = <<>>
    /\ results = <<>>
    /\ ret = Undefined
    /\ spin = <<>>
    /\ out = <<>>
    /\ exitCode = NoExit

Next == Load

Spec == Init /\ [][Next]_vars

InitDiscovery ==
    /\ fs \in Listings(MaxNodes, MaxDepth)
    /\ options \in [file : {Undefined},
                    directory : {Str(<<>>), Str(<<Name_src>>),
                                 Str(<<Name_dot_git>>), Str(<<Name_a_ts>>)},
                    extensions : {Undefined, Str(Str_TS), Str(Str_tsCommaPy)}]
    /\ service = [n \in ServedNames |-> [type |-> "neterr"]]
    /\ pc = "start"
    /\ files = <<>>
    /\ call = <<>>
    /\ results = <<>>
    /\ ret = Undefined
    /\ spin = <<>>
    /\ out = <<>>
    /\ exitCode = NoExit

NextDiscovery == Discover

SpecDiscovery == InitDiscovery /\ [][NextDiscovery]_vars

InitAnalyze ==
    /\ fs \in Listings(ScanNodes, MaxDepth)
    /\ options \in [file : {Str(<<Name_a_ts>>), Str(<<Name_src>>),
                            Str(<<Name_src, Name_a_ts>>),
                            Str(<<Name_a_ts, Name_B_TS>>)},
                    directory : {Undefined}, extensions : {Undefined}]
    /\ service \in Services
    /\ pc = "start"
    /\ files = <<>>
    /\ call = <<>>
    /\ results = <<>>
    /\ ret = Undefined
    /\ spin = <<>>
    /\ out = <<>>
    /\ exitCode = NoExit

NextAnalyze ==
    \/ AnalyzeStart
    \/ FetchReject
    \/ FetchResolve
    \/ JsonReject
    \/ JsonResolve

SpecAnalyze == InitAnalyze /\ [][NextAnalyze]_vars

\* The file systems of a scan run: files a.ts and B.TS, the directory src and
\* the dangling link lnk
ScanListings ==
    {l \in Listings(ScanNodes, MaxDepth) :
        \A p \in PathsUnder(<<>>, l) :
            p[Len(p)] \in {Name_a_ts, Name_B_TS, Name_src, Name_lnk}}

\* The bodies of a scan run: no vulnerability, one critical, one without a
\* severity, and one of high severity followed by one of an unrecognized
\* severity with a CWE
ScanBodies ==
    {[type |-> "object", vulnerabilities |-> v] :
        v \in {<<>>,
               <<[line |-> 3, severity |-> Sev_critical]>>,
               <<[line |-> 3]>>,
               <<[line |-> 3, severity |-> Sev_high],
                 [line |-> 5, severity |-> Sev_info, cwe |-> 79]>>}}

ScanServices ==
    [ServedNames ->
        {[type |-> "neterr"],
         [type |-> "non2xx", statusText |-> "Not Found"],
         [type |-> "badjson", message |-> "Unexpected end of JSON input"],
         [type |-> "badjson", message |-> "Unexpected token"]}
        \cup {[type |-> "body", body |-> b] : b \in ScanBodies}]

InitScan ==
    /\ fs \in ScanListings
    /\ options \in ScanOptions
    /\ service \in ScanServices
    /\ pc = "start"
    /\ files = <<>>
    /\ call = <<>>
    /\ results = <<>>
    /\ ret = Undefined
    /\ spin = <<>>
    /\ out = <<>>
    /\ exitCode = NoExit

NextScan ==
    \/ ScanStart
    \/ \E i \in 1..Len(call) : CallFetchReject(i)
    \/ \E i \in 1..Len(call) : CallFetchResolve(i)
    \/ \E i \in 1..Len(call) : CallJsonReject(i)
    \/ \E i \in 1..Len(call) : CallJsonResolve(i)
    \/ AllSettled

SpecScan == InitScan /\ [][NextScan]_vars

\* ------------------------------------------------------------ properties
Range(q) == {q[i] : i \in 1..Len(q)}
NoDuplicates(q) == \A i, j \in 1..Len(q) : q[i] = q[j] => i = j

\* The command line names neither a file nor a directory
NeitherGiven == options.file = Undefined /\ options.directory = Undefined

\* The process of a scan that names a file or a directory has ended
Ended == pc = "exited" /\ ~NeitherGiven

\* An outcome that is a result object
Successful(r) == r.type = "object"

IsPrefix(a, b) == Len(a) <= Len(b) /\ SubSeq(b, 1, Len(a)) = a

\* The files below root whose lower-cased extension is in E and none of whose
\* ancestor directories below root is hidden or named node_modules
Matching(f, root, E) ==
    {p \in PathsUnder(<<>>, f) :
        /\ IsPrefix(root, p)
        /\ Len(p) > Len(root)
        /\ lookup(f, p).kind = "file"
        /\ includes(E, toLowerCase(extname(p[Len(p)])))
        /\ \A j \in (Len(root) + 1)..(Len(p) - 1) :
               ~startsWithDot(p[j]) /\ p[j] # node_modules}

\* No entry of the file system fails its stat
AllStatOk(f) == \A p \in PathsUnder(<<>>, f) : lookup(f, p).kind # "broken"

Discovered == pc = "discovered"

\* The call of analyzeFile has returned
Returned == pc = "returned"

\* The call of analyzeFile that has returned went through its catch block
CallFailed == Returned /\ spin[Len(spin)].kind = "fail"

\* The cause an outcome carries
causeOf(result) ==
    IF "cause" \in DOMAIN result THEN Str(result.cause)
    ELSE IF "error" \in DOMAIN result THEN Str(result.error)
    ELSE Undefined

\* A call of analyzeFile that has returned has returned the value, and emitted
\* the spinner messages, that analyzeFile gives for its whole run; until then
\* it has emitted a prefix of them and returned nothing.
AnalyzeFileWhole ==
    /\ Returned =>
          /\ ret = analyzeFile(fs, service, options.file.v).ret
          /\ spin = analyzeFile(fs, service, options.file.v).spin
    /\ ~Returned =>
          /\ ret = Undefined
          /\ IsPrefix(spin, analyzeFile(fs, service, options.file.v).spin)

\* The scan action is past its await of Promise.all
Settled == pc \in {"completed", "exited"} /\ ~NeitherGiven

\* Call i of the scan action went through its catch block
Failed(i) ==
    \E k \in 1..Len(spin) : spin[k].kind = "fail" /\ spin[k].file = files[i]

\* Where in the spinner messages call i reports its end
settledAt(i) ==
    CHOOSE k \in 1..Len(spin) :
        spin[k].kind \in {"fail", "succeed"} /\ spin[k].file = files[i]

\* The number of vulnerabilities of the successful entries of rs
RECURSIVE SumVulns(_)
SumVulns(rs) ==
    IF rs = <<>> THEN 0
    ELSE (IF Successful(Head(rs)) THEN Len(Head(rs).vulnerabilities) ELSE 0)
         + SumVulns(Tail(rs))

\* The total the report states, -1 when it states none
ReportedTotal ==
    IF \E k \in 1..Len(out) : out[k].type = "total"
    THEN out[CHOOSE k \in 1..Len(out) : out[k].type = "total"].n
    ELSE -1

\* C1: results has one entry per input file; as soon as call i has returned,
\* and so once Promise.all has resolved, its i-th entry is the outcome of
\* analysing files[i], whatever the order in which the calls returned.
C1_InputOrder ==
    /\ (pc \in {"awaiting", "completed", "exited"} /\ ~NeitherGiven) =>
          /\ Len(results) = Len(files)
          /\ \A i \in 1..Len(files) :
                 call[i] = "returned" =>
                     results[i] = analyzeFileReturns(fs, service, files[i])
    /\ Settled =>
          \A i \in 1..Len(files) :
              results[i] = analyzeFileReturns(fs, service, files[i])

\* C1 witness: a completed scan of two files with different outcomes, the
\* second of which returned first
C1_Witness ==
    /\ pc = "completed"
    /\ Len(files) = 2
    /\ settledAt(2) < settledAt(1)
    /\ Successful(results[1])
    /\ Successful(results[2])
    /\ results[1] # results[2]

\* C2: aggregation starts only after every dispatched call has returned, and a
\* call that fails discards no sibling: there are as many outcomes as files,
\* every call that did not fail has a successful outcome, and with f failed
\* calls among N, N - f outcomes are successful.
C2_SettleAll ==
    /\ (Settled \/ \E k \in 1..Len(out) : out[k].type = "banner") =>
          \A i \in 1..Len(call) : call[i] = "returned"
    /\ Settled =>
          /\ Len(results) = Len(files)
          /\ Len(call) = Len(files)
          /\ \A i \in 1..Len(files) : ~Failed(i) => Successful(results[i])
          /\ Cardinality({i \in 1..Len(files) : Successful(results[i])})
               = Len(files) - Cardinality({i \in 1..Len(files) : Failed(i)})

\* C2 witness: of two calls exactly one failed, on the network, and the scan
\* completed with the other's vulnerabilities
C2_Witness ==
    /\ pc = "completed"
    /\ Len(files) = 2
    /\ Cardinality({i \in 1..2 : Failed(i)}) = 1
    /\ \E k \in 1..Len(spin) : spin[k].kind = "fail" /\ spin[k].cause = fetchError
    /\ \E i \in 1..2 : Successful(results[i]) /\ Len(results[i].vulnerabilities) > 0

\* C3: a call of analyzeFile that fails (file unreadable, network error,
\* non-2xx status, body that is not JSON) returns a failed outcome that carries
\* the path of its file and the cause of the failure.
C3_FailedOutcomeCarriesPath ==
    CallFailed =>
        /\ ~Successful(ret)
        /\ fileOf(ret) = Str(options.file.v)
        /\ causeOf(ret) = Str(spin[Len(spin)].cause)

\* C4: the total the report states is the number of vulnerabilities of the
\* successful outcomes, failed outcomes adding nothing; the verdict that
\* follows it is clean exactly when the total is 0; a scan that completes
\* states a total.
C4_TotalIsSum ==
    /\ pc = "completed" => ReportedTotal >= 0
    /\ \A k \in 1..Len(out) :
           out[k].type = "total" =>
               /\ out[k].n = SumVulns(results)
               /\ k < Len(out)
               /\ out[k + 1].type = "verdict"
               /\ out[k + 1].clean <=> (out[k].n = 0)

\* C4 witness: a failed outcome and a successful one with vulnerabilities, and
\* the total is that of the successful one
C4_Witness ==
    /\ pc = "completed"
    /\ Len(results) = 2
    /\ \E i \in 1..2 : results[i] = Null
    /\ \E i \in 1..2 : Successful(results[i]) /\ Len(results[i].vulnerabilities) = 2
    /\ ReportedTotal = 2

GetFilesExactWhenStatOk ==
    Discovered =>
        /\ NoDuplicates(files)
        /\ Range(files) \subseteq
             Matching(fs, options.directory.v, parseExtensions(options.extensions))
        /\ AllStatOk(fs) =>
             Range(files) =
               Matching(fs, options.directory.v, parseExtensions(options.extensions))

C7_PipelineFailureExits1 ==
    Ended =>
        /\ (~notGiven(options.file) /\ ~canReadFile(fs, options.file.v)) =>
              /\ exitCode = 1
              /\ Len(results) = 1
              /\ ~Successful(results[1])
        /\ (notGiven(options.file) /\ ~canReaddir(fs, options.directory.v)) =>
              exitCode = 1

\* C8: with neither --file nor --directory the scan action goes nowhere but to
\* exit code 1, and no file is collected, no call of analyzeFile made and
\* nothing displayed; a scan that runs to completion does not exit with code
\* 1, vulnerabilities or not.
C8_ExitCodes ==
    /\ NeitherGiven =>
          /\ pc \in {"start", "exited"}
          /\ pc = "exited" => exitCode = 1
          /\ files = <<>> /\ call = <<>> /\ results = <<>> /\ spin = <<>>
          /\ \A k \in 1..Len(out) : out[k].type = "usage"
    /\ pc = "completed" => exitCode # 1

\* C8 witness: a scan that found vulnerabilities ran to completion
C8_Witness ==
    /\ pc = "completed"
    /\ ReportedTotal > 0
    /\ exitCode = 0

\* C9: a successful outcome carries the path of the file it was produced for.
C9_OutcomeCarriesItsFile ==
    (Returned /\ Successful(ret)) => fileOf(ret) = Str(options.file.v)

\* The ranks of a severity
RankedSeverities == {Sev_critical, Sev_high, Sev_medium, Sev_low}

\* Some vulnerability of a successful outcome has no severity, or one that is
\* not a rank
UnrankedScanned ==
    \E i \in 1..Len(results) :
        /\ Successful(results[i])
        /\ \E k \in 1..Len(results[i].vulnerabilities) :
               \/ "severity" \notin DOMAIN results[i].vulnerabilities[k]
               \/ results[i].vulnerabilities[k].severity \notin RankedSeverities

\* The statement of line 87 threw in the run
Line87Threw ==
    \E k \in 1..Len(spin) : spin[k].kind = "scan-fail" /\ spin[k].cause = "line 87"

\* C10: a vulnerability whose severity is absent or not a rank does not fail
\* the scan: unless the statement of line 87 itself throws, aggregation
\* completes, exit code 1 is not taken, and the vulnerability is counted in
\* the total.
C10_SeverityNeverFails ==
    (Settled /\ UnrankedScanned /\ ~Line87Threw) =>
        /\ pc = "completed"
        /\ exitCode # 1
        /\ ReportedTotal = SumVulns(results)

\* A vulnerability whose severity is present but not a rank is printed in the
\* colour of the lowest rank, and the scan completes unless the statement of
\* line 87 throws.
UnrecognizedIsLowest ==
    /\ \A k \in 1..Len(out) :
           (out[k].type = "vuln" /\ out[k].label \notin
                {toUpperCase(s) : s \in {Sev_critical, Sev_high, Sev_medium}})
               => out[k].color = "gray"
    /\ (Settled /\ ~Line87Threw /\ pc = "exited") =>
           \E i \in 1..Len(results) :
               /\ Successful(results[i])
               /\ \E k \in 1..Len(results[i].vulnerabilities) :
                      "severity" \notin DOMAIN results[i].vulnerabilities[k]

====
